---- MODULE Spec2Model ----
(***************************************************************************)
(* Model of the two dashboards of the repository: src/app.py (NYC Language *)
(* Access Services) and src/sosi_app.py (SOSI Language Services).          *)
(*                                                                         *)
(* Tables are pandas DataFrames: a sequence of column names and a sequence *)
(* of rows.  DataFrames are mutable objects, so they live in a heap and    *)
(* the program's variables hold references to them; None is reference 0.   *)
(* Rating scores are kept in half points (6 stands for 3.0, 7 for 3.5).    *)
(***************************************************************************)
EXTENDS Integers, Sequences, FiniteSets, TLC

VARIABLES dataset, heap, calls, app, pc, src, mem, raised, shown, cache

cleanVars == <<dataset, heap, calls>>
appVars == <<app, pc, src, mem, raised, shown, cache>>
vars == <<dataset, heap, calls, app, pc, src, mem, raised, shown, cache>>

None == 0

\* ------------------------------------------------------------------ cells
\* A missing value (NaN), a text, a number, a rating in half points.
NaN == [t |-> "nan", s |-> <<>>, n |-> 0]
Str(s) == [t |-> "str", s |-> s, n |-> 0]
Num(n) == [t |-> "num", s |-> <<>>, n |-> n]
Half(n) == [t |-> "half", s |-> <<>>, n |-> n]

Unknown == <<"U", "n", "k", "n", "o", "w", "n">>

\* The cell texts of the tables below.
Text ==
    [ Yes |-> <<"Y", "e", "s">>,
      No |-> <<"N", "o">>,
      NotGood |-> <<"N", "o", "t", " ", "G", "o", "o", "d">>,
      Maybe |-> <<"M", "a", "y", "b", "e">>,
      Queens |-> <<"Q", "u", "e", "e", "n", "s">>,
      DOE |-> <<"D", "O", "E">>,
      HRA |-> <<"H", "R", "A">>,
      Bronx |-> <<"B", "r", "o", "n", "x">>,
      Spanish |-> <<"S", "p", "a", "n", "i", "s", "h">>,
      French |-> <<"F", "r", "e", "n", "c", "h">>,
      NewYork |-> <<"N", "Y">>,
      Native |-> <<"N", "a", "t", "i", "v", "e">>,
      Completed |-> <<"C", "o", "m", "p", "l", "e", "t", "e", "d">>,
      Pending |-> <<"P", "e", "n", "d", "i", "n", "g">>,
      All |-> <<"A", "l", "l">> ]

\* ----------------------------------------------------------- column names
\* A column name is a sequence of tokens; a token is either white space or
\* a piece of the name that has none at its ends.
Whitespace == {" ", "\t", "\n"}

RECURSIVE lstrip(_)
lstrip(name) ==
    IF name # <<>> /\ Head(name) \in Whitespace THEN lstrip(Tail(name)) ELSE name

RECURSIVE rstrip(_)
rstrip(name) ==
    IF name # <<>> /\ name[Len(name)] \in Whitespace
    THEN rstrip(SubSeq(name, 1, Len(name) - 1))
    ELSE name

strip(name) == rstrip(lstrip(name))

service_columns ==
    << <<"Interaction with Security Guards">>,
       <<"Interaction with Reception Staff">>,
       <<"Interaction with Frontline Staff">>,
       <<"Does Facility have signs posted notifying clients \nto the right of interpretation services?">>,
       <<"Did the Secret Shopper receive the informat\nion or service asked for?">> >>

\* The column names the two scripts look for.
Col ==
    [ agency |-> <<"Agency">>,
      borough |-> <<"Borough">>,
      shopper_language |-> <<"Secret Shopper Language">>,
      language |-> <<"Language">>,
      languages |-> <<"Languages">>,
      state |-> <<"State">>,
      proficiency |-> <<"Proficiency">>,
      status |-> <<"Status">>,
      billable_time |-> <<"Billable time">>,
      billable_numeric |-> <<"Billable time (numeric)">> ]

rating_score == <<"rating_score">>
lep_population == <<"LEP Population (Estimate)">>

\* ----------------------------------------------------------------- tables
HasColumn(tbl, name) == \E i \in 1..Len(tbl.columns) : tbl.columns[i] = name

ColumnIndex(tbl, name) == CHOOSE i \in 1..Len(tbl.columns) : tbl.columns[i] = name

Cell(tbl, r, name) == tbl.rows[r][ColumnIndex(tbl, name)]

\* df[name] = values: replaces the column in place, or appends it.
SetColumn(tbl, name, values) ==
    IF HasColumn(tbl, name)
    THEN [tbl EXCEPT !.rows =
            [r \in 1..Len(tbl.rows) |->
                [tbl.rows[r] EXCEPT ![ColumnIndex(tbl, name)] = values[r]]]]
    ELSE [columns |-> Append(tbl.columns, name),
          rows |-> [r \in 1..Len(tbl.rows) |-> Append(tbl.rows[r], values[r])]]

\* df.fillna('Unknown')
fillna(tbl) ==
    [tbl EXCEPT !.rows =
        [r \in 1..Len(tbl.rows) |->
            [c \in 1..Len(tbl.rows[r]) |->
                IF tbl.rows[r][c].t = "nan" THEN Str(Unknown) ELSE tbl.rows[r][c]]]]

\* ------------------------------------------------- str.contains(case=False)
UpperLetters == <<"A", "B", "C", "D", "E", "F", "G", "H", "I", "J", "K", "L", "M",
                  "N", "O", "P", "Q", "R", "S", "T", "U", "V", "W", "X", "Y", "Z">>
LowerLetters == <<"a", "b", "c", "d", "e", "f", "g", "h", "i", "j", "k", "l", "m",
                  "n", "o", "p", "q", "r", "s", "t", "u", "v", "w", "x", "y", "z">>

\* str.lower on one character, as a table from upper to lower case.
LowerOf ==
    [ch \in {UpperLetters[i] : i \in 1..Len(UpperLetters)} |->
        LowerLetters[CHOOSE i \in 1..Len(UpperLetters) : UpperLetters[i] = ch]]

FoldCase(ch) == IF ch \in DOMAIN LowerOf THEN LowerOf[ch] ELSE ch

SameChar(a, b) == FoldCase(a) = FoldCase(b)

\* re.search of one literal alternative anywhere in the text.
Search(text, pat) ==
    \E i \in 1..(Len(text) - Len(pat) + 1) :
        \A j \in 1..Len(pat) : SameChar(text[i + j - 1], pat[j])

PositivePattern == { <<"Y", "e", "s">>, <<"G", "o", "o", "d">>,
                     <<"E", "x", "c", "e", "l", "l", "e", "n", "t">> }
NegativePattern == { <<"N", "o">>, <<"P", "o", "o", "r">>, <<"B", "a", "d">> }

\* Series.str.contains(pat, case=False, na=False) on one cell: an element
\* that is not a string gives NaN, which na=False turns into False.
str_contains(cell, pat) == cell.t = "str" /\ \E p \in pat : Search(cell.s, p)

\* ---------------------------------------------------------- rating score
DefaultScore == 6
ScoreStep == 1
ClipLower == 2
ClipUpper == 10

\* The mutant of clip: no clamping.
clipNone(x, lo, hi) == x

clip(x, lo, hi) == IF x < lo THEN lo ELSE IF x > hi THEN hi ELSE x

\* The mutant of ApplySignal: positive and negative matching made exclusive.
ApplySignalExclusive(score, cell) ==
    IF str_contains(cell, PositivePattern) THEN score + ScoreStep
    ELSE IF str_contains(cell, NegativePattern) THEN score - ScoreStep
    ELSE score

\* One column's two masked updates of one row's rating_score.
ApplySignal(score, cell) ==
    LET plus == IF str_contains(cell, PositivePattern) THEN score + ScoreStep ELSE score
    IN  IF str_contains(cell, NegativePattern) THEN plus - ScoreStep ELSE plus

\* The mutant of InitRating: an existing rating_score column is kept.
InitRatingKeep(tbl, r) ==
    IF HasColumn(tbl, rating_score) /\ Cell(tbl, r, rating_score).t = "half"
    THEN Cell(tbl, r, rating_score).n
    ELSE DefaultScore

\* df['rating_score'] = 3
InitRating(tbl, r) == DefaultScore

\* The rating_score of row r after the loop has handled service_columns[1..k].
RECURSIVE ScoreAfter(_, _, _)
ScoreAfter(tbl, r, k) ==
    IF k = 0 THEN InitRating(tbl, r)
    ELSE LET prev == ScoreAfter(tbl, r, k - 1)
             col == service_columns[k]
         IN  IF HasColumn(tbl, col) THEN ApplySignal(prev, Cell(tbl, r, col)) ELSE prev

\* The loop over service_columns and the final clip, for row r.
RatingOf(tbl, r) ==
    clip(ScoreAfter(tbl, r, Len(service_columns)), ClipLower, ClipUpper)

\* -------------------------------------------------------------- to_numeric
Digits == <<"0", "1", "2", "3", "4", "5", "6", "7", "8", "9">>

IsDigit(ch) == \E d \in 1..Len(Digits) : Digits[d] = ch
DigitValue(ch) == (CHOOSE d \in 1..Len(Digits) : Digits[d] = ch) - 1

RECURSIVE ParseDigits(_)
ParseDigits(s) ==
    IF s = <<>> THEN 0
    ELSE 10 * ParseDigits(SubSeq(s, 1, Len(s) - 1)) + DigitValue(s[Len(s)])

\* pd.to_numeric(value, errors='coerce') on one cell.
to_numeric(cell) ==
    IF cell.t = "num" THEN cell
    ELSE IF cell.t = "str" /\ cell.s # <<>> /\ \A i \in 1..Len(cell.s) : IsDigit(cell.s[i])
         THEN Num(ParseDigits(cell.s))
         ELSE NaN

\* ------------------------------------------------------------------ dates
\* A date cell of a worksheet, read as a Timestamp: n is its day, counted
\* from some first day.  NaT is the missing date.
Timestamp(n) == [t |-> "date", s |-> <<>>, n |-> n]
NaT == [t |-> "nat", s |-> <<>>, n |-> 0]

\* pd.to_datetime(value, errors='coerce') on one cell: a date stays, a missing
\* value and a text without any digit become NaT.  (Texts with digits and
\* numbers are not among the cells of the date columns here.)
to_datetime(cell) ==
    CASE cell.t \in {"date", "nat"} -> cell
      [] cell.t = "nan" -> NaT
      [] cell.t = "str" /\ \A i \in 1..Len(cell.s) : ~IsDigit(cell.s[i]) -> NaT

date_columns == << <<"Request Date">>, <<"Hearing Date">>, <<"Row Added">> >>

\* timedelta(days=365)
DefaultSpanDays == 365

\* st.date_input(label, value, min_value, max_value) with all three given as
\* days: the widget refuses a default outside its range with an exception,
\* otherwise the user picks a day of the range; the days on offer here are
\* the default and the given ones.
date_input(value, min_value, max_value, days) ==
    IF value < min_value \/ value > max_value
    THEN [raised |-> "StreamlitAPIException", picks |-> {}]
    ELSE [raised |-> "none",
          picks |-> {value} \cup {d \in days : min_value <= d /\ d <= max_value}]

\* ------------------------------------------------------------ aggregation
\* A Series of an aggregation: elements [key, val] in index order.  A value
\* is a count or sum (n over 1), a mean n / d, or NaN.
Ratio(n, d) == [t |-> "num", n |-> n, d |-> d]
NaNValue == [t |-> "nan", n |-> 0, d |-> 1]

\* df[col]
Column(tbl, col) == [r \in 1..Len(tbl.rows) |-> Cell(tbl, r, col)]

\* Series.dropna()
dropna(cells) == SelectSeq(cells, LAMBDA c : c.t # "nan")

\* The distinct elements in the order of their first appearance.
RECURSIVE Distinct(_)
Distinct(cells) ==
    IF cells = <<>> THEN <<>>
    ELSE LET before == Distinct(SubSeq(cells, 1, Len(cells) - 1))
             x == cells[Len(cells)]
         IN  IF \E i \in 1..Len(before) : before[i] = x THEN before ELSE Append(before, x)

\* Python's order on str: by code point, a prefix before its extensions.
CodePoints == <<" ", "/">> \o Digits \o UpperLetters \o LowerLetters

RECURSIVE StrLess(_, _)
StrLess(a, b) ==
    LET ord(ch) == CHOOSE i \in 1..Len(CodePoints) : CodePoints[i] = ch
    IN  IF b = <<>> THEN FALSE
        ELSE IF a = <<>> THEN TRUE
        ELSE IF Head(a) = Head(b) THEN StrLess(Tail(a), Tail(b))
        ELSE ord(Head(a)) < ord(Head(b))

\* groupby(col, sort=True): the group keys in ascending order.
RECURSIVE SortedKeys(_)
SortedKeys(keys) ==
    IF keys = {} THEN <<>>
    ELSE LET m == CHOOSE x \in keys : \A y \in keys \ {x} : StrLess(x.s, y.s)
         IN  <<m>> \o SortedKeys(keys \ {m})

\* groupby(col): NaN keys are dropped (dropna=True).
GroupKeys(tbl, col) ==
    LET present == dropna(Column(tbl, col))
    IN  SortedKeys({present[i] : i \in 1..Len(present)})

\* The cells of `metric` in the rows of one group, in row order.
GroupCells(tbl, col, key, metric) ==
    LET rows == SelectSeq(tbl.rows, LAMBDA row : row[ColumnIndex(tbl, col)] = key)
    IN  [i \in 1..Len(rows) |-> rows[i][ColumnIndex(tbl, metric)]]

RECURSIVE Total(_)
Total(cells) == IF cells = <<>> THEN 0 ELSE Head(cells).n + Total(Tail(cells))

\* Series.sum() (skipna=True, min_count=0): NaN is left out, no value sums to 0.
sum(cells) == Ratio(Total(dropna(cells)), 1)

\* The mutant of mean: a missing value counts as zero.
meanZeroFilled(cells) ==
    IF cells = <<>> THEN NaNValue ELSE Ratio(Total(dropna(cells)), Len(cells))

\* Series.mean() (skipna=True): NaN is left out, no value gives NaN.
mean(cells) ==
    IF dropna(cells) = <<>> THEN NaNValue
    ELSE Ratio(Total(dropna(cells)), Len(dropna(cells)))

\* df.groupby(col)[metric].sum()
groupby_sum(tbl, col, metric) ==
    LET keys == GroupKeys(tbl, col)
    IN  [i \in 1..Len(keys) |->
            [key |-> keys[i], val |-> sum(GroupCells(tbl, col, keys[i], metric))]]

\* df.groupby(col)[metric].mean()
groupby_mean(tbl, col, metric) ==
    LET keys == GroupKeys(tbl, col)
    IN  [i \in 1..Len(keys) |->
            [key |-> keys[i], val |-> mean(GroupCells(tbl, col, keys[i], metric))]]

\* Series.sort_values(ascending=False): descending with NaN last.  The
\* default kind is quicksort, which is not stable, so equal values come out
\* in any order: the result is any of the orderings in this set.
sort_values(series) ==
    LET n == Len(series)
        Orderings == {p \in [1..n -> 1..n] : \A i, j \in 1..n : i # j => p[i] # p[j]}
        MayPrecede(a, b) == b.t = "nan" \/ (a.t # "nan" /\ a.n * b.d >= b.n * a.d)
    IN  { [i \in 1..n |-> series[p[i]]] :
            p \in { q \in Orderings :
                      \A i \in 1..(n - 1) :
                          MayPrecede(series[q[i]].val, series[q[i + 1]].val) } }

\* Series.value_counts(): NaN is dropped, the values are counted in the order
\* of their first appearance and the counts sorted in descending order.
value_counts(tbl, col) ==
    LET keys == Distinct(dropna(Column(tbl, col)))
    IN  sort_values([i \in 1..Len(keys) |->
                        [key |-> keys[i],
                         val |-> Ratio(Len(SelectSeq(Column(tbl, col),
                                                     LAMBDA c : c = keys[i])), 1)]])

\* Series.head(n)
head(series, n) == SubSeq(series, 1, IF Len(series) < n THEN Len(series) ELSE n)

\* ------------------------------------------------------------------- heap
NewRef(h) == Len(h) + 1

\* The mutant of copy: the same object is returned.
copyAlias(h, p) == [heap |-> h, ret |-> p]

\* df.copy()
copy(h, p) == [heap |-> Append(h, h[p]), ret |-> NewRef(h)]

StripColumns(tbl) ==
    [tbl EXCEPT !.columns = [i \in 1..Len(tbl.columns) |-> strip(tbl.columns[i])]]

clean_lass_data(h, p) ==
    IF p = None THEN [heap |-> h, ret |-> None]
    ELSE LET c == copy(h, p)
             \* df.columns = df.columns.str.strip() assigns on the object df names
             h1 == [c.heap EXCEPT ![c.ret] = StripColumns(@)]
             \* df = df.fillna('Unknown') makes a new object
             filled == fillna(h1[c.ret])
             rated == SetColumn(filled, rating_score,
                                [r \in 1..Len(filled.rows) |-> Half(RatingOf(filled, r))])
         IN  [heap |-> Append(h1, rated), ret |-> NewRef(h1)]

clean_lep_data(h, p) ==
    IF p = None THEN [heap |-> h, ret |-> None]
    ELSE LET c == copy(h, p)
             h1 == [c.heap EXCEPT ![c.ret] = StripColumns(@)]
             filled == fillna(h1[c.ret])
             coerced ==
                 IF HasColumn(filled, lep_population)
                 THEN SetColumn(filled, lep_population,
                                [r \in 1..Len(filled.rows) |->
                                    to_numeric(Cell(filled, r, lep_population))])
                 ELSE filled
         IN  [heap |-> Append(h1, coerced), ret |-> NewRef(h1)]

\* ------------------------------------------------------ the cleaning calls
MaxRows == 3
MaxSheetRows == 1
MaxLinguists == 2

RECURSIVE Ascending(_)
Ascending(S) ==
    IF S = {} THEN <<>>
    ELSE LET m == CHOOSE x \in S : \A y \in S : x <= y
         IN  <<m>> \o Ascending(S \ {m})

\* Column names as a source may spell them: bare, or with white space around.
Paddings == { <<>>, <<" ">> }
Padded(name, ws) == ws \o name \o ws

SurveyCells == {NaN, Str(Text.Yes), Str(Text.No), Str(Text.NotGood), Str(Text.Maybe)}

BoroughCells == {NaN, Str(Text.Queens)}
PopulationCells == {NaN, Str(<<"1", "0">>), Str(<<"2", "0">>), Str(<<"n", "/", "a">>)}

TablesOver(names, cellsOf, nrows) ==
    { [columns |-> names, rows |-> rows] :
        rows \in [1..nrows -> { row \in [1..Len(names) -> UNION {cellsOf[i] : i \in 1..Len(names)}] :
                                  \A i \in 1..Len(names) : row[i] \in cellsOf[i] }] }

\* LASS survey tables: one record over any subset of the service columns,
\* or up to MaxRows records over a single service column under either spelling.
LassTables ==
    UNION { UNION { TablesOver([i \in 1..Len(Ascending(S)) |->
                                   Padded(service_columns[Ascending(S)[i]], ws)],
                               [i \in 1..Len(Ascending(S)) |-> SurveyCells], n) :
                    n \in IF Cardinality(S) = 1 THEN 0..MaxRows
                          ELSE IF ws = <<>> THEN {1} ELSE {} } :
            S \in SUBSET (1..Len(service_columns)), ws \in Paddings }

\* LEP population tables: a borough and a population estimate.
LepTables ==
    UNION { UNION { TablesOver([i \in 1..Len(Ascending(S)) |->
                                   Padded(<<Col.borough, lep_population>>[Ascending(S)[i]], ws)],
                               [i \in 1..Len(Ascending(S)) |->
                                   <<BoroughCells, PopulationCells>>[Ascending(S)[i]]], n) :
                    n \in 0..MaxRows } :
            S \in SUBSET (1..2), ws \in Paddings }

\* No dashboard is running while the cleaning functions are exercised alone.
AppIdle ==
    /\ app = "none" /\ pc = "none" /\ src = <<>> /\ mem = <<>>
    /\ raised = [exc |-> "none", at |-> "none"] /\ shown = {} /\ cache = <<>>

InitClean ==
    /\ AppIdle
    /\ dataset \in {"lass", "lep"}
    /\ \E tbl \in (IF dataset = "lass" THEN LassTables ELSE LepTables) : heap = <<tbl>>
    /\ calls = <<>>

Called(fn, p, result) ==
    /\ heap' = result.heap
    /\ calls' = Append(calls, [fn |-> fn, arg |-> p, ret |-> result.ret, before |-> heap[p]])
    /\ UNCHANGED <<dataset, appVars>>

\* lass_df = clean_lass_data(lass_df)
CleanLass ==
    /\ dataset = "lass" /\ calls = <<>>
    /\ Called("clean_lass_data", Len(heap), clean_lass_data(heap, Len(heap)))

\* lep_df = clean_lep_data(lep_df)
CleanLep ==
    /\ dataset = "lep" /\ calls = <<>>
    /\ Called("clean_lep_data", Len(heap), clean_lep_data(heap, Len(heap)))

\* The same cleaning applied to the table it returned.
CleanAgain ==
    /\ Len(calls) = 1
    /\ LET fn == calls[1].fn
           p == calls[1].ret
       IN  Called(fn, p, IF fn = "clean_lass_data" THEN clean_lass_data(heap, p)
                         ELSE clean_lep_data(heap, p))

NextClean == CleanLass \/ CleanLep \/ CleanAgain

SpecClean == InitClean /\ [][NextClean]_vars

\* ------------------------------------------------- claims on the cleaning
LassCalls == {i \in 1..Len(calls) : calls[i].fn = "clean_lass_data"}
Returned(i) == heap[calls[i].ret]
RowsOf(tbl) == 1..Len(tbl.rows)

PresentSignals(tbl) ==
    {k \in 1..Len(service_columns) : HasColumn(tbl, service_columns[k])}
PositiveCount(tbl, r) ==
    Cardinality({k \in PresentSignals(tbl) :
                    str_contains(Cell(tbl, r, service_columns[k]), PositivePattern)})
NegativeCount(tbl, r) ==
    Cardinality({k \in PresentSignals(tbl) :
                    str_contains(Cell(tbl, r, service_columns[k]), NegativePattern)})
\* 3.0 + 0.5*P - 0.5*N in half points, before any clamping.
RawScore(tbl, r) == 6 + PositiveCount(tbl, r) - NegativeCount(tbl, r)
Clamped(x) == CHOOSE y \in 2..10 : \A z \in 2..10 : (y - x) * (y - x) <= (z - x) * (z - x)

\* C1: every rating_score that clean_lass_data produces lies in [1.0, 5.0]
\* (2..10 in half points), whatever signal columns are present and whatever
\* their cells hold.
C1_ScoreInRange ==
    \A i \in LassCalls : \A r \in RowsOf(Returned(i)) :
        /\ HasColumn(Returned(i), rating_score)
        /\ Cell(Returned(i), r, rating_score).t = "half"
        /\ Cell(Returned(i), r, rating_score).n >= 2
        /\ Cell(Returned(i), r, rating_score).n <= 10

\* A record whose unclamped sum leaves the scale at either end has been scored.
C1_Witness ==
    /\ \E i \in LassCalls : \E r \in RowsOf(Returned(i)) :
          RawScore(Returned(i), r) > 10 /\ Cell(Returned(i), r, rating_score).n = 10
    /\ dataset = "lass"

\* C2: the rating score equals clamp(3.0 + 0.5*P - 0.5*N, 1.0, 5.0), P and N
\* counting the present signal columns whose cell matches a positive, resp. a
\* negative token; a cell matching both counts in both, the clamp is applied
\* once to the sum (which does not depend on the order of the columns), and
\* the score is exactly 3.0 when no signal column is present.
C2_ScoreFormula ==
    \A i \in LassCalls : \A r \in RowsOf(Returned(i)) :
        /\ Cell(Returned(i), r, rating_score).n = Clamped(RawScore(Returned(i), r))
        /\ PresentSignals(Returned(i)) = {} => Cell(Returned(i), r, rating_score) = Half(6)

\* A record with a cell that matches both token lists, beside other signals.
C2_Witness ==
    \E i \in LassCalls : \E r \in RowsOf(Returned(i)) :
        /\ \E k \in PresentSignals(Returned(i)) :
              /\ str_contains(Cell(Returned(i), r, service_columns[k]), PositivePattern)
              /\ str_contains(Cell(Returned(i), r, service_columns[k]), NegativePattern)
        /\ PositiveCount(Returned(i), r) >= 4
        /\ NegativeCount(Returned(i), r) >= 1

\* C3: a signal cell that is absent in the source contributes 0: a single
\* signal column holding "Yes", "No" and an absent cell in three rows gives
\* the scores 3.5, 2.5 and 3.0.
C3_AbsentCellScoresNeutral ==
    \A i \in LassCalls :
        ( /\ Len(calls[i].before.columns) = 1
          /\ \E k \in 1..Len(service_columns) :
                strip(calls[i].before.columns[1]) = service_columns[k]
          /\ calls[i].before.rows = << <<Str(Text.Yes)>>, <<Str(Text.No)>>, <<NaN>> >> )
        => /\ Cell(Returned(i), 1, rating_score) = Half(7)
           /\ Cell(Returned(i), 2, rating_score) = Half(5)
           /\ Cell(Returned(i), 3, rating_score) = Half(6)

\* C4: cleaning is idempotent: clean_lass_data, resp. clean_lep_data, applied
\* to the table it returned returns an equal table (sentinel cells, coerced
\* numeric column with its missing markers, rating_score column).
C4_Idempotent ==
    \A i, j \in 1..Len(calls) :
        (calls[j].fn = calls[i].fn /\ calls[j].arg = calls[i].ret /\ i < j)
        => Returned(j) = Returned(i)

\* clean_lep_data has been applied twice to a table whose population column
\* held a number, a text that is none and an absent cell.
C4_Witness ==
    /\ Len(calls) = 2 /\ calls[2].fn = "clean_lep_data" /\ calls[2].arg = calls[1].ret
    /\ HasColumn(Returned(2), lep_population)
    /\ \E r \in RowsOf(Returned(2)) : Cell(Returned(2), r, lep_population) = NaN
    /\ \E r \in RowsOf(Returned(2)) : Cell(Returned(2), r, lep_population).t = "num"
    /\ \E r \in RowsOf(calls[1].before) : \E c \in 1..Len(calls[1].before.columns) :
          calls[1].before.rows[r][c] = Str(<<"n", "/", "a">>)
    /\ \E r \in RowsOf(Returned(2)) : \E c \in 1..Len(Returned(2).columns) :
          Returned(2).rows[r][c] = Str(Unknown)

\* C5: clean_lass_data and clean_lep_data leave the table they are given as
\* it was (column names, column set, cells) and return another table.
C5_InputUnchanged ==
    \A i \in 1..Len(calls) :
        /\ heap[calls[i].arg] = calls[i].before
        /\ calls[i].ret # calls[i].arg

\* A table whose column names and cells the cleaning does change was cleaned.
C5_Witness ==
    \E i \in 1..Len(calls) :
        /\ \E c \in 1..Len(calls[i].before.columns) :
              strip(calls[i].before.columns[c]) # calls[i].before.columns[c]
        /\ \E r \in RowsOf(calls[i].before) : \E c \in 1..Len(calls[i].before.columns) :
              calls[i].before.rows[r][c] = NaN
        /\ Len(Returned(i).columns) # Len(calls[i].before.columns)

\* ---------------------------------------------------------------- sources
\* What a fetch, an open or a parse can raise, each with its base classes.
Bases ==
    [ URLError |-> {"URLError", "OSError", "Exception", "BaseException"},
      ParserError |-> {"ParserError", "ValueError", "Exception", "BaseException"},
      PermissionError |-> {"PermissionError", "OSError", "Exception", "BaseException"},
      BadZipFile |-> {"BadZipFile", "ValueError", "Exception", "BaseException"} ]

NoTable == [columns |-> <<>>, rows |-> <<>>]

\* A source either serves a table, or fails with an exception, or (a file)
\* does not exist, or (a workbook) holds named sheets.
Serves(tbl) == [kind |-> "table", exc |-> "none", table |-> tbl, sheets |-> <<>>]
Fails(e) == [kind |-> "raise", exc |-> e, table |-> NoTable, sheets |-> <<>>]
Missing == [kind |-> "missing", exc |-> "none", table |-> NoTable, sheets |-> <<>>]
Workbook(sheets) == [kind |-> "workbook", exc |-> "none", table |-> NoTable, sheets |-> sheets]

NoError == [exc |-> "none", at |-> "none"]

\* pd.read_csv(url): the parsed table, or the exception it raises.
read_csv(source) ==
    IF source.kind = "raise" THEN [raised |-> source.exc, table |-> NoTable]
    ELSE [raised |-> "none", table |-> source.table]

\* The mutant of LoaderExcept: a handler for I/O errors only.
LoaderExceptOSError == "OSError"

\* except Exception as e
LoaderExcept == "Exception"

\* The body of a remote loader: (df, None) or (None, prefix + str(e)); an
\* error of None is the empty text.  An exception the handler does not catch
\* leaves the function.
load_csv(h, source, prefix) ==
    LET r == read_csv(source)
    IN  IF r.raised = "none"
        THEN [heap |-> Append(h, r.table), df |-> NewRef(h), error |-> <<>>, raised |-> "none"]
        ELSE IF LoaderExcept \in Bases[r.raised]
             THEN [heap |-> h, df |-> None, error |-> <<prefix, r.raised>>, raised |-> "none"]
             ELSE [heap |-> h, df |-> None, error |-> <<>>, raised |-> r.raised]

load_lass_data(h, source) == load_csv(h, source, "Error loading LASS data: ")
load_lep_data(h, source) == load_csv(h, source, "Error loading LEP data: ")

\* ---------------------------------------------------------- st.cache_data
\* Time passes in steps of TickSeconds; an entry's age is counted in steps,
\* up to MaxTicks.
TickSeconds == 1800
MaxTicks == 3

\* @st.cache_data(ttl=3600) on the two remote loaders, @st.cache_data with
\* no ttl on load_local_excel_files.
ttl == [load_lass_data |-> {3600}, load_lep_data |-> {3600}, load_local_excel_files |-> {}]

\* The mutant of Fresh: a stored entry never expires.
FreshForever(fn) == cache[fn].stored

\* An entry is served until its ttl, if it has one, has passed.
Fresh(fn) == cache[fn].stored /\ \A t \in ttl[fn] : cache[fn].age * TickSeconds < t

\* The mutant of Cacheable: only a loaded table is stored.
CacheableSuccess(result) == "df" \notin DOMAIN result \/ result.df # None

\* st.cache_data stores whatever the function returns.
Cacheable(result) == TRUE

\* One call of a function under st.cache_data: a fresh entry is served as a
\* copy of the stored value and the function is not run; otherwise the
\* function runs and what it returns is stored with the age 0.  An exception
\* leaves the cache as it was.  The entry records whether the last call was
\* served from the cache and the age of the entry it found (-1: none).
cache_data(fn, restored, computed, pickled) ==
    IF Fresh(fn)
    THEN [ret |-> restored,
          cache |-> [cache EXCEPT ![fn].last = "hit", ![fn].found = cache[fn].age]]
    ELSE [ret |-> computed,
          cache |-> IF computed.raised = "none" /\ Cacheable(computed)
                    THEN [cache EXCEPT ![fn] =
                            [stored |-> TRUE, age |-> 0, value |-> pickled, last |-> "miss",
                             found |-> IF cache[fn].stored THEN cache[fn].age ELSE -1]]
                    ELSE [cache EXCEPT ![fn].last = "miss",
                                       ![fn].found = IF cache[fn].stored THEN cache[fn].age ELSE -1]]

\* The pickled (df, error) of a remote loader, and the copy a hit returns.
CsvPickle(r) ==
    [ok |-> r.df # None, table |-> IF r.df # None THEN r.heap[r.df] ELSE NoTable, error |-> r.error]
CsvRestore(h, v) ==
    IF v.ok THEN [heap |-> Append(h, v.table), df |-> NewRef(h), error |-> <<>>, raised |-> "none"]
    ELSE [heap |-> h, df |-> None, error |-> v.error, raised |-> "none"]

NoCache ==
    [ load_lass_data |-> [stored |-> FALSE, age |-> 0, last |-> "none", found |-> -1,
                          value |-> [ok |-> FALSE, table |-> NoTable, error |-> <<>>]],
      load_lep_data |-> [stored |-> FALSE, age |-> 0, last |-> "none", found |-> -1,
                         value |-> [ok |-> FALSE, table |-> NoTable, error |-> <<>>]],
      load_local_excel_files |->
          [stored |-> FALSE, age |-> 0, last |-> "none", found |-> -1,
           value |-> [historical |-> Missing, linguists |-> Missing, staging |-> Missing]] ]

\* ----------------------------------------------- the NYC dashboard's input

FilterColumns == <<Col.agency, Col.borough, Col.shopper_language>>
FilterCells == << {Str(Text.DOE), Str(Text.HRA)}, {Str(Text.Bronx), NaN}, {Str(Text.Spanish)} >>

\* LASS tables of a render cycle: one service column and any subset of the
\* three columns the sidebar filters on, with up to MaxRows records.
LassAppTables ==
    UNION { TablesOver(<<service_columns[1]>> \o
                         [i \in 1..Len(Ascending(S)) |-> FilterColumns[Ascending(S)[i]]],
                       <<{Str(Text.Yes)}>> \o
                         [i \in 1..Len(Ascending(S)) |-> FilterCells[Ascending(S)[i]]], n) :
            S \in SUBSET (1..Len(FilterColumns)), n \in 0..MaxRows }

LepColumns == <<Col.borough, Col.language, lep_population>>
LepCells == << {Str(Text.Bronx)}, {Str(Text.Spanish)}, {Str(<<"1", "0">>)} >>

\* LEP tables of a render cycle: any subset of the columns the charts need.
LepAppTables ==
    UNION { TablesOver([i \in 1..Len(Ascending(S)) |-> LepColumns[Ascending(S)[i]]],
                       [i \in 1..Len(Ascending(S)) |-> LepCells[Ascending(S)[i]]], n) :
            S \in SUBSET (1..Len(LepColumns)), n \in 0..MaxSheetRows }

RemoteFailures == {"URLError", "ParserError"}

UsualLass ==
    [columns |-> <<service_columns[1]>> \o FilterColumns,
     rows |-> << <<Str(Text.Yes), Str(Text.DOE), Str(Text.Bronx), Str(Text.Spanish)>> >>]
UsualLep ==
    [columns |-> LepColumns, rows |-> << <<Str(Text.Bronx), Str(Text.Spanish), Str(<<"1", "0">>)>> >>]

\* LEP tables for the population charts: a key column and the estimate, with
\* up to MaxRows records.
PopulationTables ==
    UNION { TablesOver(<<Col.borough, lep_population>>,
                       << {Str(Text.Bronx), Str(Text.Queens)},
                          {Str(<<"1", "0">>), Str(<<"n", "/", "a">>)} >>, n) \cup
            TablesOver(<<Col.language, lep_population>>,
                       << {Str(Text.Spanish), Str(Text.French)},
                          {Str(<<"1", "0">>), Str(<<"n", "/", "a">>)} >>, n) :
            n \in 0..MaxRows }

\* What the two URLs answer during one render cycle: one of them varies
\* over all its outcomes while the other serves its usual table, and the
\* population tables come beside a LASS answer of a header line and no
\* records.
NycSources ==
    { [lass |-> Serves([UsualLass EXCEPT !.rows = <<>>]), lep |-> Serves(t)] :
        t \in PopulationTables }
    \cup
    { [lass |-> l, lep |-> Serves(UsualLep)] :
        l \in {Fails(e) : e \in RemoteFailures} \cup {Serves(t) : t \in LassAppTables} }
    \cup
    { [lass |-> Serves(UsualLass), lep |-> l] :
        l \in {Fails(e) : e \in RemoteFailures} \cup {Serves(t) : t \in LepAppTables} }

NycMem ==
    [lass_df |-> None, lass_error |-> <<>>, lep_df |-> None, lep_error |-> <<>>,
     selected_agencies |-> {}, selected_boroughs |-> {}, selected_languages |-> {},
     filtered_lass |-> None,
     agency_counts |-> <<>>, language_counts |-> <<>>, borough_counts |-> <<>>,
     lep_borough |-> <<>>, lep_language |-> <<>>]

\* --------------------------------------------- the NYC dashboard's script
Goto(label) == pc' = label /\ UNCHANGED <<app, src, raised, cache, cleanVars>>

\* An exception nothing catches ends the script run.
Raise(e) ==
    /\ raised' = [exc |-> e, at |-> pc]
    /\ pc' = "crashed"
    /\ UNCHANGED <<app, src, mem, shown, cache, cleanVars>>

\* lass_df, lass_error = load_lass_data()
LoadLass ==
    /\ app = "nyc" /\ pc = "load_lass"
    /\ LET f == load_lass_data(heap, src.lass)
           c == cache_data("load_lass_data", CsvRestore(heap, cache.load_lass_data.value),
                           f, CsvPickle(f))
           r == c.ret
       IN  IF r.raised # "none" THEN Raise(r.raised)
           ELSE /\ heap' = r.heap
                /\ mem' = [mem EXCEPT !.lass_df = r.df, !.lass_error = r.error]
                /\ cache' = c.cache
                /\ pc' = "load_lep"
                /\ UNCHANGED <<app, src, raised, shown, dataset, calls>>

\* lep_df, lep_error = load_lep_data()
LoadLep ==
    /\ app = "nyc" /\ pc = "load_lep"
    /\ LET f == load_lep_data(heap, src.lep)
           c == cache_data("load_lep_data", CsvRestore(heap, cache.load_lep_data.value),
                           f, CsvPickle(f))
           r == c.ret
       IN  IF r.raised # "none" THEN Raise(r.raised)
           ELSE /\ heap' = r.heap
                /\ mem' = [mem EXCEPT !.lep_df = r.df, !.lep_error = r.error]
                /\ cache' = c.cache
                /\ pc' = "check_errors"
                /\ UNCHANGED <<app, src, raised, shown, dataset, calls>>

\* if lass_error: st.error(lass_error); st.stop(), and the same for lep_error
CheckErrors ==
    /\ app = "nyc" /\ pc = "check_errors"
    /\ IF mem.lass_error # <<>>
       THEN shown' = shown \cup {<<"error">> \o mem.lass_error} /\ pc' = "stopped"
       ELSE IF mem.lep_error # <<>>
            THEN shown' = shown \cup {<<"error">> \o mem.lep_error} /\ pc' = "stopped"
            ELSE shown' = shown /\ pc' = "clean"
    /\ UNCHANGED <<app, src, mem, raised, cache, cleanVars>>

\* lass_df = clean_lass_data(lass_df); lep_df = clean_lep_data(lep_df)
CleanData ==
    /\ app = "nyc" /\ pc = "clean"
    /\ LET a == clean_lass_data(heap, mem.lass_df)
           b == clean_lep_data(a.heap, mem.lep_df)
       IN  /\ heap' = b.heap
           /\ mem' = [mem EXCEPT !.lass_df = a.ret, !.lep_df = b.ret]
    /\ pc' = "sidebar"
    /\ UNCHANGED <<app, src, raised, shown, cache, dataset, calls>>

\* df[col].unique()
unique(tbl, col) == {Cell(tbl, r, col) : r \in 1..Len(tbl.rows)}

\* The options of one multiselect; its value is any subset the user leaves
\* selected.  Without the column there is no widget and the selection is [].
Options(p, col) ==
    IF p # None /\ HasColumn(heap[p], col) THEN unique(heap[p], col) ELSE {}

Sidebar ==
    /\ app = "nyc" /\ pc = "sidebar"
    /\ \E sa \in SUBSET Options(mem.lass_df, Col.agency),
          sb \in SUBSET Options(mem.lass_df, Col.borough),
          sl \in SUBSET Options(mem.lass_df, Col.shopper_language) :
          mem' = [mem EXCEPT !.selected_agencies = sa, !.selected_boroughs = sb,
                             !.selected_languages = sl]
    /\ pc' = "filter"
    /\ UNCHANGED <<app, src, raised, shown, cache, cleanVars>>

\* df[df[col].isin(selected)]
isin(tbl, col, selected) ==
    [tbl EXCEPT !.rows =
        SelectSeq(tbl.rows, LAMBDA row : row[ColumnIndex(tbl, col)] \in selected)]

\* if selected_agencies:
WhenSelected(selected) == selected # {}

\* The mutant of ApplyFilters: each filter restarts from the unfiltered table.
ApplyFiltersLastWins(tbl, sa, sb, sl) ==
    LET a == IF WhenSelected(sa) THEN isin(tbl, Col.agency, sa) ELSE tbl
        b == IF WhenSelected(sb) THEN isin(tbl, Col.borough, sb) ELSE a
    IN  IF WhenSelected(sl) THEN isin(tbl, Col.shopper_language, sl) ELSE b

\* The three filters, each applied to the result of the one before.
ApplyFilters(tbl, sa, sb, sl) ==
    LET a == IF WhenSelected(sa) THEN isin(tbl, Col.agency, sa) ELSE tbl
        b == IF WhenSelected(sb) THEN isin(a, Col.borough, sb) ELSE a
    IN  IF WhenSelected(sl) THEN isin(b, Col.shopper_language, sl) ELSE b

\* filtered_lass = lass_df.copy(), then the filters; every step makes a new
\* object, of which the last is kept.
FilterData ==
    /\ app = "nyc" /\ pc = "filter"
    /\ IF mem.lass_df # None
       THEN /\ heap' = Append(heap, ApplyFilters(heap[mem.lass_df], mem.selected_agencies,
                                  mem.selected_boroughs, mem.selected_languages))
            /\ mem' = [mem EXCEPT !.filtered_lass = NewRef(heap)]
       ELSE /\ heap' = Append(heap, NoTable)
            /\ mem' = [mem EXCEPT !.filtered_lass = NewRef(heap)]
    /\ pc' = "key_metrics"
    /\ UNCHANGED <<app, src, raised, shown, cache, dataset, calls>>

\* DataFrame.empty
empty(tbl) == Len(tbl.rows) = 0 \/ Len(tbl.columns) = 0

\* The four metrics of the key performance row.  filtered_lass['Agency'] and
\* filtered_lass['Secret Shopper Language'] are read with no check that the
\* column exists: a missing one raises KeyError.
KeyMetrics ==
    /\ app = "nyc" /\ pc = "key_metrics"
    /\ LET f == heap[mem.filtered_lass]
       IN  IF empty(f)
           THEN /\ shown' = shown \cup {<<"metric", "Total Agencies", "N/A">>,
                                        <<"metric", "Languages Supported", "N/A">>,
                                        <<"metric", "Average Rating", "N/A">>,
                                        <<"metric", "Total Services", "N/A">>}
                /\ Goto("charts") /\ UNCHANGED mem
           ELSE IF ~HasColumn(f, Col.agency) \/ ~HasColumn(f, Col.shopper_language)
                THEN Raise("KeyError")
                ELSE /\ shown' = shown \cup
                          {<<"metric", "Total Agencies">>, <<"metric", "Languages Supported">>,
                           IF HasColumn(f, rating_score) THEN <<"metric", "Average Rating">>
                           ELSE <<"metric", "Average Rating", "N/A">>,
                           <<"metric", "Total Services">>}
                     /\ Goto("charts") /\ UNCHANGED mem

\* One chart behind its guard, or the warning shown in its place.
ChartOrWarning(ok, name) == IF ok THEN <<"chart", name>> ELSE <<"warning", name>>

\* The four charts on filtered_lass, each guarded by its column, and the
\* counts the first three are drawn from.
Charts ==
    /\ app = "nyc" /\ pc = "charts"
    /\ LET f == heap[mem.filtered_lass]
           counts(col, unset) ==
               IF ~empty(f) /\ HasColumn(f, col) THEN value_counts(f, col) ELSE {unset}
       IN  /\ \E ac \in counts(Col.agency, mem.agency_counts),
                 lc \in counts(Col.shopper_language, mem.language_counts),
                 bc \in counts(Col.borough, mem.borough_counts) :
                 mem' = [mem EXCEPT !.agency_counts = head(ac, 10),
                                    !.language_counts = head(lc, 10),
                                    !.borough_counts = bc]
           /\ shown' = shown \cup
                { ChartOrWarning(~empty(f) /\ HasColumn(f, Col.agency), "Agency Performance"),
                  ChartOrWarning(~empty(f) /\ HasColumn(f, Col.shopper_language), "Language Distribution"),
                  ChartOrWarning(~empty(f) /\ HasColumn(f, Col.borough), "Borough Coverage"),
                  ChartOrWarning(~empty(f) /\ HasColumn(f, rating_score), "Service Ratings") }
    /\ Goto("lep_section")

\* The LEP population charts, shown only for a non-empty lep_df, and the
\* sums they are drawn from.
LepSection ==
    /\ app = "nyc" /\ pc = "lep_section"
    /\ IF mem.lep_df # None /\ ~empty(heap[mem.lep_df])
       THEN LET l == heap[mem.lep_df]
                byBorough == HasColumn(l, Col.borough) /\ HasColumn(l, lep_population)
                byLanguage == HasColumn(l, Col.language) /\ HasColumn(l, lep_population)
            IN  /\ \E ll \in IF byLanguage
                              THEN sort_values(groupby_sum(l, Col.language, lep_population))
                              ELSE {mem.lep_language} :
                      mem' = [mem EXCEPT
                                !.lep_borough =
                                    IF byBorough THEN groupby_sum(l, Col.borough, lep_population)
                                    ELSE @,
                                !.lep_language = head(ll, 10)]
                /\ shown' = shown \cup
                     { ChartOrWarning(byBorough, "LEP Population by Borough"),
                       ChartOrWarning(byLanguage, "Top Languages by LEP Population") }
       ELSE shown' = shown /\ mem' = mem
    /\ Goto("raw_data")

\* The two raw data tabs.
RawData ==
    /\ app = "nyc" /\ pc = "raw_data"
    /\ shown' = shown \cup
         { IF ~empty(heap[mem.filtered_lass]) THEN <<"table", "LASS Data">>
           ELSE <<"warning", "LASS Data">>,
           IF mem.lep_df # None /\ ~empty(heap[mem.lep_df]) THEN <<"table", "LEP Data">>
           ELSE <<"warning", "LEP Data">> }
    /\ Goto("done") /\ UNCHANGED mem

InitNyc ==
    /\ app = "nyc" /\ pc = "load_lass"
    /\ src \in NycSources
    /\ mem = NycMem

NextNyc ==
    \/ LoadLass \/ LoadLep \/ CheckErrors \/ CleanData \/ Sidebar \/ FilterData
    \/ KeyMetrics \/ Charts \/ LepSection \/ RawData

\* ---------------------------------------------- the SOSI dashboard's input

FileFailures == {"PermissionError", "BadZipFile"}

DirectoryColumns == <<Col.languages, Col.state, Col.proficiency>>
DirectoryCells == << {Str(Text.Spanish), Str(Text.French)}, {Str(Text.NewYork)}, {Str(Text.Native)} >>

\* First sheets of the linguist workbook: any subset of the columns the
\* directory filters on, beside the linguist's first name.
LinguistTables ==
    UNION { TablesOver(<< <<"first_name">> >> \o
                         [i \in 1..Len(Ascending(S)) |-> DirectoryColumns[Ascending(S)[i]]],
                       <<{Str(Text.Maybe)}>> \o
                         [i \in 1..Len(Ascending(S)) |-> DirectoryCells[Ascending(S)[i]]], n) :
            S \in SUBSET (1..Len(DirectoryColumns)), n \in 0..MaxLinguists }

StagingColumns == <<Col.status, Col.language, Col.billable_time>>
StagingCells ==
    << {Str(Text.Completed), NaN}, {Str(Text.Spanish)}, {Str(<<"1", "0">>), Str(<<"n", "/", "a">>)} >>

\* First sheets of the staging workbook.
StagingTables ==
    UNION { TablesOver([i \in 1..Len(Ascending(S)) |-> StagingColumns[Ascending(S)[i]]],
                       [i \in 1..Len(Ascending(S)) |-> StagingCells[Ascending(S)[i]]], n) :
            S \in SUBSET (1..Len(StagingColumns)), n \in 0..MaxSheetRows }

\* Staging sheets for the duration chart, resp. the status chart, with up
\* to MaxRows records.
AnalysisTables ==
    UNION { TablesOver(<<Col.language, Col.billable_time>>,
                       << {Str(Text.Spanish), Str(Text.French)},
                          {Str(<<"1", "0">>), Str(<<"2", "0">>), Str(<<"n", "/", "a">>)} >>, n) \cup
            TablesOver(<<Col.status>>, <<{Str(Text.Completed), Str(Text.Pending), NaN}>>, n) :
            n \in 0..MaxRows }

\* The days of the request dates: a first day, the day after it, and the
\* day DefaultSpanDays after the first.
RequestDays == {0, 1, DefaultSpanDays}

\* The historical workbook: one sheet, named as the dashboard expects or not,
\* with or without the Language column and without a date column; or the
\* expected sheet with up to MaxRows request dates, valid or not, or with
\* one of the date columns beside the Language column, a first record and
\* up to MaxSheetRows more, DefaultSpanDays later or undated.
HistoricalBooks ==
    { Workbook(<<[name |-> nm, table |-> t]>>) :
        nm \in {"All Historical Data", "Sheet1"},
        t \in UNION { TablesOver(<< <<"Has Linguist?">> >> \o cols,
                                 <<{Str(Text.Yes)}>> \o [i \in 1..Len(cols) |-> {Str(Text.Spanish)}], n) :
                      cols \in {<<>>, <<Col.language>>}, n \in 0..MaxSheetRows } }
    \cup
    { Workbook(<<[name |-> "All Historical Data", table |-> t]>>) :
        t \in UNION { TablesOver(<<date_columns[1]>>,
                                 <<{Timestamp(d) : d \in RequestDays} \cup {Str(<<"n", "/", "a">>)}>>, n) :
                      n \in 0..MaxRows }
              \cup
              { [t EXCEPT !.rows = << <<Timestamp(0), Str(Text.Spanish)>> >> \o t.rows] :
                  t \in UNION { TablesOver(<<date_columns[i], Col.language>>,
                                           <<{Timestamp(DefaultSpanDays), NaN},
                                             {Str(Text.Spanish), NaN}>>, n) :
                                i \in 1..2, n \in 0..MaxSheetRows } } }

UsualBook ==
    Workbook(<<[name |-> "All Historical Data",
                table |-> [columns |-> << <<"Has Linguist?">>, Col.language >>,
                           rows |-> << <<Str(Text.Yes), Str(Text.Spanish)>> >>]]>>)
UsualLinguists ==
    Serves([columns |-> << <<"first_name">> >> \o DirectoryColumns,
            rows |-> << <<Str(Text.Maybe), Str(Text.Spanish), Str(Text.NewYork), Str(Text.Native)>> >>])
UsualStaging ==
    Serves([columns |-> StagingColumns,
            rows |-> << <<Str(Text.Completed), Str(Text.Spanish), Str(<<"1", "0">>)>> >>])

\* The three files during one render cycle: every combination of present,
\* unreadable and missing, and each file in turn over all its contents; the
\* sheets for the duration and status charts come without a linguist file.
SosiSources ==
    { [historical |-> UsualBook, linguists |-> Missing, staging |-> Serves(t)] :
        t \in AnalysisTables }
    \cup
    { [historical |-> h, linguists |-> l, staging |-> g] :
        h \in {Missing, Fails("BadZipFile"), UsualBook},
        l \in {Missing, Fails("PermissionError"), UsualLinguists},
        g \in {Missing, Fails("BadZipFile"), UsualStaging} }
    \cup { [historical |-> h, linguists |-> UsualLinguists, staging |-> UsualStaging] :
             h \in HistoricalBooks \cup {Fails(e) : e \in FileFailures} }
    \cup { [historical |-> UsualBook, linguists |-> l, staging |-> UsualStaging] :
             l \in {Serves(t) : t \in LinguistTables} \cup {Fails(e) : e \in FileFailures} }
    \cup { [historical |-> UsualBook, linguists |-> UsualLinguists, staging |-> g] :
             g \in {Serves(t) : t \in StagingTables} \cup {Fails(e) : e \in FileFailures} }

\* ---------------------------------------------- load_local_excel_files
NoneEntry == [kind |-> "none", ref |-> None, sheets |-> <<>>]
DataFrameEntry(p) == [kind |-> "df", ref |-> p, sheets |-> <<>>]
DictEntry(sheets) == [kind |-> "dict", ref |-> None, sheets |-> sheets]

\* except Exception as e
ExcelExcept == "Exception"

\* One turn of the loop over files: data[key] and the objects it made, or
\* the exception that leaves the function.
LoadFile(h, key, source) ==
    IF source.kind = "missing"
    THEN [heap |-> h, entry |-> NoneEntry, raised |-> "none"]
    ELSE IF source.kind = "raise"
         THEN IF ExcelExcept \in Bases[source.exc]
              THEN [heap |-> h, entry |-> NoneEntry, raised |-> "none"]
              ELSE [heap |-> h, entry |-> NoneEntry, raised |-> source.exc]
         ELSE IF key = "historical"
              THEN [heap |-> h \o [i \in 1..Len(source.sheets) |-> source.sheets[i].table],
                    entry |-> DictEntry([i \in 1..Len(source.sheets) |->
                                           [name |-> source.sheets[i].name, ref |-> Len(h) + i]]),
                    raised |-> "none"]
              ELSE [heap |-> Append(h, source.table), entry |-> DataFrameEntry(NewRef(h)),
                    raised |-> "none"]

load_local_excel_files(h, files) ==
    LET a == LoadFile(h, "historical", files.historical)
        b == LoadFile(a.heap, "linguists", files.linguists)
        c == LoadFile(b.heap, "staging", files.staging)
        escaped == {r.raised : r \in {a, b, c}} \ {"none"}
    IN  [heap |-> c.heap,
         data |-> [historical |-> a.entry, linguists |-> b.entry, staging |-> c.entry],
         raised |-> IF escaped = {} THEN "none" ELSE CHOOSE e \in escaped : TRUE]

NoEntries == [historical |-> NoneEntry, linguists |-> NoneEntry, staging |-> NoneEntry]

\* The pickled dict of load_local_excel_files: each entry with its tables,
\* None as a file that is not there.  A hit returns the same entries over
\* new objects, which is what loading the pickled files gives.
FilesPickle(r) ==
    [k \in {"historical", "linguists", "staging"} |->
        IF r.data[k].kind = "df" THEN Serves(r.heap[r.data[k].ref])
        ELSE IF r.data[k].kind = "dict"
             THEN Workbook([i \in 1..Len(r.data[k].sheets) |->
                              [name |-> r.data[k].sheets[i].name,
                               table |-> r.heap[r.data[k].sheets[i].ref]]])
             ELSE Missing]

SosiMem ==
    [local_data |-> NoEntries, defined |-> {},
     selected_ling_language |-> Str(Text.All), selected_state |-> Str(Text.All),
     selected_prof |-> Str(Text.All), filtered_linguists |-> None,
     status_counts |-> <<>>, avg_time_by_lang |-> <<>>,
     min_date |-> NaT, max_date |-> NaT, date_inputs |-> <<>>,
     start_date |-> None, end_date |-> None, filtered_hist |-> None]

\* -------------------------------------------- the SOSI dashboard's script
\* local_data = load_local_excel_files()
LoadLocal ==
    /\ app = "sosi" /\ pc = "load_local"
    /\ LET f == load_local_excel_files(heap, src)
           c == cache_data("load_local_excel_files",
                           load_local_excel_files(heap, cache.load_local_excel_files.value),
                           f, FilesPickle(f))
           r == c.ret
       IN  IF r.raised # "none" THEN Raise(r.raised)
           ELSE /\ heap' = r.heap
                /\ mem' = [mem EXCEPT !.local_data = r.data]
                /\ cache' = c.cache
                /\ pc' = "file_status"
                /\ UNCHANGED <<app, src, raised, shown, dataset, calls>>

\* bool(value): None is false, a dict is true when it has an entry, and a
\* DataFrame has no truth value (ValueError).
Truth(entry) ==
    IF entry.kind = "none" THEN "false"
    ELSE IF entry.kind = "dict" THEN (IF entry.sheets # <<>> THEN "true" ELSE "false")
    ELSE "ValueError"

\* any(values): stops at the first true value, or at the first that raises.
RECURSIVE any(_)
any(values) ==
    IF values = <<>> THEN "false"
    ELSE IF Truth(Head(values)) = "false" THEN any(Tail(values))
    ELSE Truth(Head(values))

Loaded(entry, name) ==
    IF entry.kind # "none" THEN <<"success", name>> ELSE <<"error", name, "Not Found">>

\* The expander with the three files' loading status.
FileStatus ==
    /\ app = "sosi" /\ pc = "file_status"
    /\ LET d == mem.local_data
           shownAny == any(<<d.historical, d.linguists, d.staging>>)
       IN  IF shownAny = "ValueError" THEN Raise("ValueError")
           ELSE /\ shown' = IF shownAny = "true"
                            THEN shown \cup {Loaded(d.historical, "Historical Data"),
                                             Loaded(d.linguists, "Linguist Directory"),
                                             Loaded(d.staging, "Staging Data")}
                            ELSE shown
                /\ Goto("overview") /\ UNCHANGED mem

\* local_data['historical'].get('All Historical Data'), None without the sheet
\* or without the workbook.
HistData(d) ==
    IF d.historical.kind = "dict"
       /\ \E i \in 1..Len(d.historical.sheets) : d.historical.sheets[i].name = "All Historical Data"
    THEN d.historical.sheets[CHOOSE i \in 1..Len(d.historical.sheets) :
                               d.historical.sheets[i].name = "All Historical Data"].ref
    ELSE None

MetricOrNA(ok, name) == IF ok THEN <<"metric", name>> ELSE <<"metric", name, "N/A">>

\* The four quick stats of the overview tab.
Overview ==
    /\ app = "sosi" /\ pc = "overview"
    /\ LET d == mem.local_data
           hist == HistData(d)
       IN  shown' = shown \cup
             { MetricOrNA(hist # None, "Total Service Requests"),
               MetricOrNA(d.linguists.kind # "none", "Available Linguists"),
               MetricOrNA(hist # None /\ HasColumn(heap[hist], Col.language), "Languages Supported"),
               MetricOrNA(d.staging.kind # "none" /\ HasColumn(heap[d.staging.ref], Col.status),
                          "Completed Services") }
    /\ Goto("trends") /\ UNCHANGED mem

\* The trends tab.  The date columns of the loaded sheet are coerced in
\* place; min_date and max_date are the first and the last valid request
\* date, NaT without one; the two date inputs are called as the script
\* calls them, each call being recorded with its arguments; filtered_hist
\* is a new table of the rows whose request date lies between the picked
\* dates.  A refused date input ends the script run, the coerced sheet and
\* the variables assigned so far staying as they are.
Trends ==
    /\ app = "sosi" /\ pc = "trends"
    /\ LET hist == HistData(mem.local_data)
           Coerce(t, col) ==
               IF HasColumn(t, col)
               THEN SetColumn(t, col, [r \in 1..Len(t.rows) |-> to_datetime(Cell(t, r, col))])
               ELSE t
           hist_data == Coerce(Coerce(Coerce(heap[hist], date_columns[1]), date_columns[2]),
                               date_columns[3])
           dated == HasColumn(hist_data, date_columns[1])
           valid == IF dated
                    THEN {c.n : c \in {x \in unique(hist_data, date_columns[1]) : x.t = "date"}}
                    ELSE {}
           min_date == IF valid = {} THEN NaT
                       ELSE Timestamp(CHOOSE d \in valid : \A o \in valid : d <= o)
           max_date == IF valid = {} THEN NaT
                       ELSE Timestamp(CHOOSE d \in valid : \A o \in valid : d >= o)
           Call(label, value) ==
               [label |-> label, given |-> TRUE, value |-> value,
                min_value |-> min_date.n, max_value |-> max_date.n]
           Bare(label) ==
               [label |-> label, given |-> FALSE, value |-> 0, min_value |-> 0, max_value |-> 0]
           start == date_input(max_date.n - DefaultSpanDays, min_date.n, max_date.n, valid)
           end == date_input(max_date.n, min_date.n, max_date.n, valid)
           Between(s, e) ==
               [hist_data EXCEPT !.rows =
                   SelectSeq(hist_data.rows,
                             LAMBDA row : LET c == row[ColumnIndex(hist_data, date_columns[1])]
                                          IN  c.t = "date" /\ c.n >= s /\ c.n <= e)]
           TrendCharts(f) ==
               (IF dated THEN {<<"chart", "Monthly Service Requests">>} ELSE {})
               \cup (IF dated /\ HasColumn(f, Col.language)
                        /\ \E r \in 1..Len(f.rows) : Cell(f, r, Col.language) # NaN
                     THEN {<<"chart", "Top 5 Languages - Request Trends">>} ELSE {})
               \cup (IF HasColumn(f, <<"Has Linguist?">>)
                     THEN {<<"chart", "Overall Linguist Availability">>}
                          \cup (IF HasColumn(f, Col.language)
                                THEN {<<"chart", "Linguist Availability by Top 10 Languages">>}
                                ELSE {})
                     ELSE {})
           Render(f, inputs, s, e) ==
               /\ heap' = Append([heap EXCEPT ![hist] = hist_data], f)
               /\ mem' = [mem EXCEPT !.min_date = min_date, !.max_date = max_date,
                                     !.date_inputs = inputs, !.start_date = s, !.end_date = e,
                                     !.filtered_hist = NewRef(heap)]
               /\ shown' = shown \cup TrendCharts(f)
               /\ pc' = "directory" /\ raised' = raised
       IN  IF mem.local_data.historical.kind = "dict"
           THEN IF hist # None /\ ~empty(heap[hist])
                THEN IF ~dated
                     THEN \E e \in RequestDays :
                             Render(hist_data, <<Bare("End Date")>>, mem.start_date, e)
                     ELSE IF valid = {}
                          THEN \E s \in RequestDays, e \in RequestDays :
                                  Render(Between(s, e), <<Bare("Start Date"), Bare("End Date")>>, s, e)
                          ELSE IF start.raised # "none"
                               THEN /\ heap' = [heap EXCEPT ![hist] = hist_data]
                                    /\ mem' = [mem EXCEPT
                                                 !.min_date = min_date, !.max_date = max_date,
                                                 !.date_inputs =
                                                     <<Call("Start Date", max_date.n - DefaultSpanDays)>>]
                                    /\ raised' = [exc |-> start.raised, at |-> pc]
                                    /\ pc' = "crashed" /\ shown' = shown
                               ELSE \E s \in start.picks, e \in end.picks :
                                      Render(Between(s, e),
                                             <<Call("Start Date", max_date.n - DefaultSpanDays),
                                               Call("End Date", max_date.n)>>, s, e)
                ELSE /\ shown' = shown \cup {<<"warning", "No historical data available">>}
                     /\ pc' = "directory" /\ UNCHANGED <<heap, mem, raised>>
           ELSE /\ shown' = shown \cup {<<"warning", "Historical data file not found">>}
                /\ pc' = "directory" /\ UNCHANGED <<heap, mem, raised>>
    /\ UNCHANGED <<app, src, cache, dataset, calls>>

\* The selectboxes of the linguist directory: each exists, and its variable
\* is assigned, only when its column does; the value is "All" or one of the
\* column's values.
Choices(tbl, col) ==
    IF HasColumn(tbl, col) THEN {Str(Text.All)} \cup (unique(tbl, col) \ {NaN}) ELSE {Str(Text.All)}

DirectoryWidgets ==
    /\ app = "sosi" /\ pc = "directory"
    /\ IF mem.local_data.linguists.kind = "none"
       THEN /\ shown' = shown \cup {<<"warning", "Linguist directory file not found">>}
            /\ Goto("analysis") /\ UNCHANGED mem
       ELSE LET df == heap[mem.local_data.linguists.ref]
            IN  /\ \E l \in Choices(df, Col.languages), st \in Choices(df, Col.state),
                      pr \in Choices(df, Col.proficiency) :
                      mem' = [mem EXCEPT
                                !.selected_ling_language = l, !.selected_state = st,
                                !.selected_prof = pr,
                                !.defined =
                                    {v \in {"selected_ling_language", "selected_state",
                                            "selected_prof"} :
                                       \/ v = "selected_ling_language" /\ HasColumn(df, Col.languages)
                                       \/ v = "selected_state" /\ HasColumn(df, Col.state)
                                       \/ v = "selected_prof" /\ HasColumn(df, Col.proficiency)}]
                /\ Goto("directory_filter") /\ UNCHANGED shown

\* df[df[col] == selected], skipped when the selection is "All"
EqualTo(tbl, col, selected) ==
    IF selected # Str(Text.All) THEN isin(tbl, col, {selected}) ELSE tbl

\* filtered_linguists = linguists_df.copy() and the three filters; reading a
\* selection variable that was never assigned raises NameError.
DirectoryFilter ==
    /\ app = "sosi" /\ pc = "directory_filter"
    /\ IF mem.defined # {"selected_ling_language", "selected_state", "selected_prof"}
       THEN Raise("NameError")
       ELSE LET df == heap[mem.local_data.linguists.ref]
                a == EqualTo(df, Col.languages, mem.selected_ling_language)
                b == EqualTo(a, Col.state, mem.selected_state)
                c == EqualTo(b, Col.proficiency, mem.selected_prof)
            IN  /\ heap' = Append(heap, c)
                /\ mem' = [mem EXCEPT !.filtered_linguists = NewRef(heap)]
                /\ pc' = "directory_render"
                /\ UNCHANGED <<app, src, raised, shown, cache, dataset, calls>>

\* The directory's metrics, charts, table and download, each behind its guard.
DirectoryRender ==
    /\ app = "sosi" /\ pc = "directory_render"
    /\ LET f == heap[mem.filtered_linguists]
       IN  shown' = shown \cup
             ( {<<"metric", "Total Linguists">>, <<"table", "Linguist Details">>}
               \cup (IF HasColumn(f, Col.languages)
                     THEN {<<"metric", "Languages Covered">>, <<"chart", "Languages Distribution">>}
                     ELSE {})
               \cup (IF HasColumn(f, Col.state)
                     THEN {<<"metric", "States Represented">>, <<"chart", "Geographic Distribution">>}
                     ELSE {}) )
    /\ Goto("analysis") /\ UNCHANGED mem

\* The data analysis tab: its metrics and charts behind their guards, and
\* the numeric billable time stored as a new column of the staging table
\* itself.
Analysis ==
    /\ app = "sosi" /\ pc = "analysis"
    /\ IF mem.local_data.staging.kind = "none"
       THEN heap' = heap /\ shown' = shown /\ mem' = mem
       ELSE LET p == mem.local_data.staging.ref
                df == heap[p]
                timed == SetColumn(df, Col.billable_numeric,
                                   [r \in 1..Len(df.rows) |-> to_numeric(Cell(df, r, Col.billable_time))])
                averaged ==
                    /\ HasColumn(df, Col.billable_time)
                    /\ \E r \in 1..Len(timed.rows) : Cell(timed, r, Col.billable_numeric) # NaN
                    /\ HasColumn(df, Col.language)
            IN  /\ heap' = IF HasColumn(df, Col.billable_time) THEN [heap EXCEPT ![p] = timed]
                           ELSE heap
                /\ \E sc \in IF HasColumn(df, Col.status) THEN value_counts(df, Col.status)
                              ELSE {mem.status_counts},
                      at \in IF averaged
                              THEN sort_values(groupby_mean(timed, Col.language, Col.billable_numeric))
                              ELSE {mem.avg_time_by_lang} :
                      mem' = [mem EXCEPT !.status_counts = sc,
                                         !.avg_time_by_lang = IF averaged THEN head(at, 10) ELSE at]
                /\ shown' = shown \cup
                     ( {<<"metric", "Total Records">>}
                       \cup (IF HasColumn(df, Col.language) THEN {<<"metric", "Unique Languages">>} ELSE {})
                       \cup (IF HasColumn(df, Col.status)
                             THEN {<<"metric", "Unique Statuses">>, <<"chart", "Status Distribution">>}
                             ELSE {})
                       \cup (IF HasColumn(df, Col.billable_time)
                                /\ \E r \in 1..Len(timed.rows) : Cell(timed, r, Col.billable_numeric) # NaN
                             THEN {<<"chart", "Distribution of Service Duration">>}
                                  \cup (IF HasColumn(df, Col.language)
                                        THEN {<<"chart", "Average Service Duration by Language">>}
                                        ELSE {})
                             ELSE {}) )
    /\ pc' = "raw_tables"
    /\ UNCHANGED <<app, src, raised, cache, dataset, calls>>

\* The three raw data tabs.
RawTables ==
    /\ app = "sosi" /\ pc = "raw_tables"
    /\ LET d == mem.local_data
       IN  shown' = shown \cup
             ( {<<"table", d.historical.sheets[i].name>> : i \in 1..Len(d.historical.sheets)}
               \cup (IF d.linguists.kind # "none" THEN {<<"table", "Linguist Data">>} ELSE {})
               \cup (IF d.staging.kind # "none" THEN {<<"table", "Staging Data">>} ELSE {}) )
    /\ Goto("done") /\ UNCHANGED mem

InitSosi ==
    /\ app = "sosi" /\ pc = "load_local"
    /\ src \in SosiSources
    /\ mem = SosiMem

NextSosi ==
    \/ LoadLocal \/ FileStatus \/ Overview \/ Trends \/ DirectoryWidgets
    \/ DirectoryFilter \/ DirectoryRender \/ Analysis \/ RawTables

InitApp ==
    /\ dataset = "none" /\ calls = <<>> /\ heap = <<>>
    /\ raised = NoError /\ shown = {} /\ cache = NoCache
    /\ (InitNyc \/ InitSosi)

NextApp == NextNyc \/ NextSosi

SpecApp == InitApp /\ [][NextApp]_vars

\* ------------------------------------------- render cycles over the cache
\* What the sources of either dashboard may hold from one render cycle to
\* the next: each URL reachable or not, each file there or not.
CacheSources ==
    [ nyc |-> { [lass |-> l, lep |-> p] :
                  l \in {Fails("URLError"), Serves(UsualLass)},
                  p \in {Fails("URLError"), Serves(UsualLep)} },
      sosi |-> { [historical |-> h, linguists |-> l, staging |-> g] :
                   h \in {Missing, UsualBook}, l \in {Missing, UsualLinguists},
                   g \in {Missing, UsualStaging} } ]

Finished == pc \in {"done", "stopped", "crashed"}

\* Time passes between two render cycles: every stored entry grows older.
Tick ==
    /\ Finished
    /\ \E fn \in DOMAIN cache : cache[fn].stored /\ cache[fn].age < MaxTicks
    /\ cache' = [fn \in DOMAIN cache |->
                    IF cache[fn].stored /\ cache[fn].age < MaxTicks
                    THEN [cache[fn] EXCEPT !.age = @ + 1] ELSE cache[fn]]
    /\ UNCHANGED <<app, pc, src, mem, raised, shown, cleanVars>>

\* A source changes between two render cycles.
SourceChange ==
    /\ Finished
    /\ src' \in CacheSources[app] \ {src}
    /\ UNCHANGED <<app, pc, mem, raised, shown, cache, cleanVars>>

\* A user interaction runs the script again from the top, in the same
\* process: the script's variables start anew, the cache is kept.
Rerun ==
    /\ Finished
    /\ pc' = IF app = "nyc" THEN "load_lass" ELSE "load_local"
    /\ mem' = IF app = "nyc" THEN NycMem ELSE SosiMem
    /\ heap' = <<>> /\ shown' = {} /\ raised' = NoError
    /\ UNCHANGED <<app, src, cache, dataset, calls>>

InitCache ==
    /\ dataset = "none" /\ calls = <<>> /\ heap = <<>>
    /\ raised = NoError /\ shown = {} /\ cache = NoCache
    /\ app \in {"nyc", "sosi"}
    /\ src \in CacheSources[app]
    /\ pc = (IF app = "nyc" THEN "load_lass" ELSE "load_local")
    /\ mem = (IF app = "nyc" THEN NycMem ELSE SosiMem)

NextCache == NextApp \/ Tick \/ SourceChange \/ Rerun

SpecCache == InitCache /\ [][NextCache]_vars

\* The script runs on, the user keeps interacting and time keeps passing.
SpecCacheLive ==
    SpecCache /\ WF_vars(NextApp) /\ WF_vars(Rerun) /\ SF_vars(Tick)

\* ---------------------------------------------- claims on the dashboards
Loaders == {"load_lass", "load_lep", "load_local"}
FileKeys == {"historical", "linguists", "staging"}

\* C6: no failure raised while fetching, opening or parsing a source leaves a
\* loader: for an unreachable or malformed source load_lass_data and
\* load_lep_data return (None, message), and load_local_excel_files returns
\* None for that file.
C6_LoadersNeverRaise ==
    /\ raised.at \notin Loaders
    /\ (app = "nyc" /\ pc # "load_lass" /\ src.lass.kind = "raise")
       => (mem.lass_df = None /\ mem.lass_error # <<>>)
    /\ (app = "nyc" /\ pc \notin {"load_lass", "load_lep"} /\ src.lep.kind = "raise")
       => (mem.lep_df = None /\ mem.lep_error # <<>>)
    /\ (app = "sosi" /\ pc # "load_local")
       => \A k \in FileKeys : src[k].kind \in {"raise", "missing"} => mem.local_data[k] = NoneEntry

\* load_lep_data has returned from a malformed body with its error text.
C6_Witness ==
    /\ app = "nyc" /\ pc = "check_errors"
    /\ src.lep = Fails("ParserError")
    /\ mem.lep_df = None
    /\ mem.lep_error = <<"Error loading LEP data: ", "ParserError">>

\* C7: every load outcome is a non-empty table or an explicit error with a
\* reason: no loader returns a null table without a reason, and none reports
\* success with an empty table (load_lass_data, load_lep_data, and each
\* entry of load_local_excel_files).
C7_TableOrExplicitError ==
    /\ (app = "nyc" /\ pc # "load_lass")
       => \/ mem.lass_df = None /\ mem.lass_error # <<>>
          \/ mem.lass_df # None /\ mem.lass_error = <<>> /\ ~empty(heap[mem.lass_df])
    /\ (app = "nyc" /\ pc \notin {"load_lass", "load_lep"})
       => \/ mem.lep_df = None /\ mem.lep_error # <<>>
          \/ mem.lep_df # None /\ mem.lep_error = <<>> /\ ~empty(heap[mem.lep_df])
    /\ (app = "sosi" /\ pc # "load_local")
       => \A k \in FileKeys :
            \/ mem.local_data[k].kind = "df" /\ ~empty(heap[mem.local_data[k].ref])
            \/ /\ mem.local_data[k].kind = "dict"
               /\ \A i \in 1..Len(mem.local_data[k].sheets) :
                    ~empty(heap[mem.local_data[k].sheets[i].ref])

\* The filter spec as the script holds it: a column is filtered when its
\* selection is not empty.
Filtered == app = "nyc" /\ pc \in {"key_metrics", "charts", "lep_section", "raw_data", "done"}
Selections ==
    { <<Col.agency, mem.selected_agencies>>, <<Col.borough, mem.selected_boroughs>>,
      <<Col.shopper_language, mem.selected_languages>> }
FilterSpec == {f \in Selections : f[2] # {}}
Kept(tbl) ==
    {r \in 1..Len(tbl.rows) : \A f \in FilterSpec : Cell(tbl, r, f[1]) \in f[2]}

\* C8: filtering returns exactly the records whose value, for every filtered
\* column, is in that column's accepted set, in their original order; the
\* result has no more rows than the input, and an empty spec returns the
\* table unchanged.
C8_FilterExact ==
    Filtered =>
        LET t == heap[mem.lass_df]
            f == heap[mem.filtered_lass]
        IN  /\ f.columns = t.columns
            /\ Len(f.rows) = Cardinality(Kept(t))
            /\ \A i \in 1..Len(f.rows) : f.rows[i] = t.rows[Ascending(Kept(t))[i]]
            /\ Len(f.rows) <= Len(t.rows)
            /\ FilterSpec = {} => f = t

\* Two filters together keep the first and the third of three records.
C8_Witness ==
    /\ Filtered
    /\ Len(heap[mem.lass_df].rows) = 3
    /\ Kept(heap[mem.lass_df]) = {1, 3}
    /\ Cardinality(FilterSpec) >= 2
    /\ heap[mem.lass_df].rows[1] # heap[mem.lass_df].rows[3]
    /\ \E f \in FilterSpec : Cell(heap[mem.lass_df], 2, f[1]) \notin f[2]
    /\ \E f \in FilterSpec : Cell(heap[mem.lass_df], 2, f[1]) \in f[2]

\* C9: only a column that the filter spec does not name is unrestricted: an
\* empty accepted set for a column of the table (every agency, borough or
\* language deselected) yields no rows.
C9_EmptySelectionMatchesNothing ==
    Filtered =>
        \A f \in Selections :
            (HasColumn(heap[mem.lass_df], f[1]) /\ f[2] = {})
            => Len(heap[mem.filtered_lass].rows) = 0

AllLoaded ==
    \/ app = "nyc" /\ src.lass.kind = "table" /\ src.lep.kind = "table"
    \/ app = "sosi" /\ \A k \in FileKeys : src[k].kind \in {"table", "workbook"}

\* C10: whatever expected columns a loaded table lacks, a render cycle of
\* either dashboard raises nothing: what needs an absent column is skipped.
C10_MissingColumnsNeverRaise == AllLoaded => raised = NoError

\* ------------------------------------------- claims on the aggregations
Counted == app = "nyc" /\ pc \in {"lep_section", "raw_data", "done"}
Summed == app = "nyc" /\ pc \in {"raw_data", "done"} /\ mem.lep_df # None /\ ~empty(heap[mem.lep_df])
Analysed == app = "sosi" /\ pc \in {"raw_tables", "done"} /\ mem.local_data.staging.kind = "df"
StagingTable == heap[mem.local_data.staging.ref]
Averaged ==
    /\ Analysed
    /\ HasColumn(StagingTable, Col.billable_numeric) /\ HasColumn(StagingTable, Col.language)
    /\ \E r \in RowsOf(StagingTable) : Cell(StagingTable, r, Col.billable_numeric).t = "num"

RECURSIVE SumOfValues(_)
SumOfValues(series) ==
    IF series = <<>> THEN 0 ELSE Head(series).val.n + SumOfValues(Tail(series))

\* C11: the counts of a count aggregation sum to the number of rows of the
\* aggregated table, a row with an absent grouping cell being counted in a
\* group of its own (agency_counts, language_counts and borough_counts over
\* filtered_lass, status_counts over the staging sheet).
C11_CountsSumToRows ==
    /\ Counted =>
         LET f == heap[mem.filtered_lass]
         IN  \A c \in { <<Col.agency, mem.agency_counts>>,
                        <<Col.shopper_language, mem.language_counts>>,
                        <<Col.borough, mem.borough_counts>> } :
                (~empty(f) /\ HasColumn(f, c[1])) => SumOfValues(c[2]) = Len(f.rows)
    /\ (Analysed /\ HasColumn(StagingTable, Col.status))
         => SumOfValues(mem.status_counts) = Len(StagingTable.rows)

\* The rows of one group whose metric is a number.
Contributing(tbl, col, key, metric) ==
    {r \in RowsOf(tbl) : Cell(tbl, r, col) = key /\ Cell(tbl, r, metric).t = "num"}

RECURSIVE SumOver(_, _, _)
SumOver(tbl, rows, metric) ==
    IF rows = {} THEN 0
    ELSE LET r == CHOOSE x \in rows : TRUE
         IN  Cell(tbl, r, metric).n + SumOver(tbl, rows \ {r}, metric)

KeysOf(series) == {series[i].key : i \in 1..Len(series)}

\* C12: a sum or mean is taken over the records whose metric is not the
\* missing-numeric marker, a missing value never counting as zero: every
\* group's LEP population sum is the sum of its numbers (0 when it has
\* none), and a mean is the sum of the group's numbers over how many they
\* are, so that [10, missing, 20] has mean 15.
C12_MissingLeftOut ==
    /\ Summed =>
         LET l == heap[mem.lep_df]
         IN  \A c \in { <<Col.borough, mem.lep_borough>>, <<Col.language, mem.lep_language>> } :
                (HasColumn(l, c[1]) /\ HasColumn(l, lep_population)) =>
                    /\ KeysOf(c[2]) = unique(l, c[1])
                    /\ \A i \in 1..Len(c[2]) :
                          c[2][i].val =
                              Ratio(SumOver(l, Contributing(l, c[1], c[2][i].key, lep_population),
                                            lep_population), 1)
    /\ Averaged =>
         \A i \in 1..Len(mem.avg_time_by_lang) :
            LET rows == Contributing(StagingTable, Col.language, mem.avg_time_by_lang[i].key,
                                     Col.billable_numeric)
                val == mem.avg_time_by_lang[i].val
            IN  rows # {} =>
                  /\ val.t = "num"
                  /\ val.n * Cardinality(rows) = SumOver(StagingTable, rows, Col.billable_numeric) * val.d

\* One language with the durations 10, missing and 20 has the mean 15.
C12_Witness ==
    /\ Averaged
    /\ Len(StagingTable.rows) = 3
    /\ Column(StagingTable, Col.language) = <<Str(Text.Spanish), Str(Text.Spanish), Str(Text.Spanish)>>
    /\ Column(StagingTable, Col.billable_numeric) = <<Num(10), NaN, Num(20)>>
    /\ mem.avg_time_by_lang = <<[key |-> Str(Text.Spanish), val |-> Ratio(30, 2)]>>

\* C13: a group with no contributing metric value is left out of a mean
\* aggregation: it is never among the groups of avg_time_by_lang, after the
\* descending sort and the top-10 truncation.
C13_EmptyMeanGroupsExcluded ==
    Averaged =>
        \A i \in 1..Len(mem.avg_time_by_lang) :
            /\ mem.avg_time_by_lang[i].val.t # "nan"
            /\ Contributing(StagingTable, Col.language, mem.avg_time_by_lang[i].key,
                            Col.billable_numeric) # {}

FirstRow(tbl, col, key) ==
    CHOOSE r \in RowsOf(tbl) :
        Cell(tbl, r, col) = key /\ \A q \in 1..(r - 1) : Cell(tbl, q, col) # key

\* Descending by value, equal values in the order of first appearance.
TopOrdered(series, tbl, col) ==
    \A i, j \in 1..Len(series) :
        (i < j /\ series[i].val.t = "num" /\ series[j].val.t = "num") =>
            LET a == series[i].val
                b == series[j].val
            IN  \/ a.n * b.d > b.n * a.d
                \/ /\ a.n * b.d = b.n * a.d
                   /\ FirstRow(tbl, col, series[i].key) < FirstRow(tbl, col, series[j].key)

\* C14: a top-N aggregation holds at most N groups in descending order of
\* their value, and of two groups with equal value the one that appears
\* first in the table comes first (the top-10 counts of agencies and
\* languages, the top-10 LEP population sums, the top-10 mean durations).
C14_TopNStable ==
    /\ Counted =>
         LET f == heap[mem.filtered_lass]
         IN  \A c \in { <<Col.agency, mem.agency_counts>>,
                        <<Col.shopper_language, mem.language_counts>> } :
                (~empty(f) /\ HasColumn(f, c[1])) =>
                    Len(c[2]) <= 10 /\ TopOrdered(c[2], f, c[1])
    /\ (Summed /\ HasColumn(heap[mem.lep_df], Col.language)
               /\ HasColumn(heap[mem.lep_df], lep_population))
         => Len(mem.lep_language) <= 10
            /\ TopOrdered(mem.lep_language, heap[mem.lep_df], Col.language)
    /\ Averaged =>
         Len(mem.avg_time_by_lang) <= 10
         /\ TopOrdered(mem.avg_time_by_lang, StagingTable, Col.language)

\* -------------------------------- claims on failures and on loaded tables
\* C17: a failed load halts only the section that depends on the failed
\* dataset: with the LEP load failing and the LASS load succeeding, the
\* render cycle still shows the LASS metrics, charts and table beside the
\* LEP error message; and no cleaning, filtering or aggregation step runs
\* on the null table of a failed load.
C17_OnlyAffectedSectionHalts ==
    /\ (app = "nyc" /\ Finished /\ src.lass.kind = "table" /\ src.lep.kind = "raise")
         => /\ <<"error">> \o mem.lep_error \in shown
            /\ \E x \in shown : x[1] = "metric" /\ x[2] = "Total Agencies"
            /\ \E x \in shown : x[1] \in {"chart", "warning"} /\ x[2] = "Agency Performance"
            /\ \E x \in shown : x[1] \in {"table", "warning"} /\ x[2] = "LASS Data"
    /\ (app = "nyc" /\ pc \in {"clean", "sidebar", "filter", "key_metrics", "charts",
                               "lep_section", "raw_data", "done"})
         => (mem.lass_df # None /\ mem.lep_df # None)

\* C18: what a loader returned stays as loaded through the render cycle:
\* every loaded table keeps its cells and its column set, so that the raw
\* data view and the CSV export show the columns and values of the source.
C18_LoadedTablesUnchanged ==
    /\ (app = "nyc" /\ pc # "load_lass" /\ src.lass.kind = "table")
         => heap[1] = src.lass.table
    /\ (app = "nyc" /\ pc \notin {"load_lass", "load_lep"} /\ src.lep.kind = "table")
         => heap[IF src.lass.kind = "table" THEN 2 ELSE 1] = src.lep.table
    /\ (app = "sosi" /\ pc # "load_local")
         => \A k \in FileKeys :
              /\ mem.local_data[k].kind = "df" => heap[mem.local_data[k].ref] = src[k].table
              /\ mem.local_data[k].kind = "dict" =>
                   \A i \in 1..Len(mem.local_data[k].sheets) :
                       heap[mem.local_data[k].sheets[i].ref] = src[k].sheets[i].table

\* C19: for each of the 8 combinations of the three files being loadable or
\* not, the render cycle raises nothing, and the sections of the loadable
\* files are rendered.
C19_FileCombinationsNeverRaise ==
    ( /\ app = "sosi"
      /\ src.historical \in {Missing, UsualBook}
      /\ src.linguists \in {Missing, UsualLinguists}
      /\ src.staging \in {Missing, UsualStaging} )
    => /\ raised = NoError
       /\ pc = "done" =>
            /\ src.historical = UsualBook => <<"metric", "Total Service Requests">> \in shown
            /\ src.linguists = UsualLinguists => <<"metric", "Total Linguists">> \in shown
            /\ src.staging = UsualStaging => <<"metric", "Total Records">> \in shown

\* ------------------------------------------------- claims on the caching
RemoteLoaders == {"load_lass_data", "load_lep_data"}

\* The state right after the call of a remote loader.
JustCalled(fn) ==
    app = "nyc" /\ pc = (IF fn = "load_lass_data" THEN "load_lep" ELSE "check_errors")

\* What that call returned to the script.
ReturnedBy(fn) ==
    LET df == IF fn = "load_lass_data" THEN mem.lass_df ELSE mem.lep_df
        error == IF fn = "load_lass_data" THEN mem.lass_error ELSE mem.lep_error
    IN  [ok |-> df # None, table |-> IF df # None THEN heap[df] ELSE NoTable, error |-> error]

\* What a fetch of the source gives at this moment.
ServedNow(fn) ==
    LET source == IF fn = "load_lass_data" THEN src.lass ELSE src.lep
        prefix == IF fn = "load_lass_data" THEN "Error loading LASS data: "
                  ELSE "Error loading LEP data: "
    IN  IF source.kind = "table" THEN [ok |-> TRUE, table |-> source.table, error |-> <<>>]
        ELSE [ok |-> FALSE, table |-> NoTable, error |-> <<prefix, source.exc>>]

\* C15: a call of load_lass_data or load_lep_data within one hour of the
\* call that filled the cache returns the cached result and fetches
\* nothing, whatever the source holds by then; the first call after the hour
\* fetches again and returns what the source holds.
C15_CachedWithinTtl ==
    \A fn \in RemoteLoaders :
        JustCalled(fn) =>
            /\ (cache[fn].found >= 0 /\ cache[fn].found * TickSeconds < 3600)
                 => /\ cache[fn].last = "hit"
                    /\ cache[fn].age = cache[fn].found
                    /\ ReturnedBy(fn) = cache[fn].value
            /\ (cache[fn].found * TickSeconds > 3600)
                 => /\ cache[fn].last = "miss"
                    /\ cache[fn].age = 0
                    /\ ReturnedBy(fn) = ServedNow(fn)
                    /\ cache[fn].value = ServedNow(fn)

\* One step of time after the fetch the cached table is returned although
\* the URL has become unreachable since.
C15_Witness ==
    /\ JustCalled("load_lass_data")
    /\ cache.load_lass_data.last = "hit"
    /\ cache.load_lass_data.found = 1
    /\ src.lass.kind = "raise"
    /\ mem.lass_df # None /\ heap[mem.lass_df] = UsualLass

\* A loader's source has just been read again.
Refetched(fn) == cache[fn].stored /\ cache[fn].last = "miss" /\ cache[fn].age = 0

\* C16: every cached load result is valid for a bounded time only: for each
\* loader of either dashboard there is always a later render cycle that
\* reads the source again.
C16_EveryLoaderReadsAgain ==
    /\ []<>(app = "nyc" => Refetched("load_lass_data"))
    /\ []<>(app = "nyc" => Refetched("load_lep_data"))
    /\ []<>(app = "sosi" => Refetched("load_local_excel_files"))

\* C20: a failed fetch is cached like a success: the (None, message) pair
\* is stored with the age 0, every render cycle within the hour gets the
\* same pair from the cache, shows the error and halts, without a new fetch
\* even if the source is reachable again; a fetch happens only after the
\* hour.
C20_FailureCached ==
    /\ \A fn \in RemoteLoaders :
          JustCalled(fn) =>
              /\ (cache[fn].last = "miss" /\ ~ReturnedBy(fn).ok)
                   => /\ cache[fn].stored /\ cache[fn].age = 0
                      /\ cache[fn].value = ReturnedBy(fn)
              /\ (cache[fn].stored /\ ~cache[fn].value.ok /\ cache[fn].last = "miss")
                   => cache[fn].found = -1 \/ cache[fn].found * TickSeconds >= 3600
              /\ (cache[fn].found >= 0 /\ cache[fn].found * TickSeconds < 3600
                    /\ cache[fn].last = "hit" /\ ~cache[fn].value.ok)
                   => ReturnedBy(fn) = cache[fn].value
    /\ (app = "nyc" /\ pc \notin {"load_lass", "load_lep", "check_errors"}
          /\ (mem.lass_error # <<>> \/ mem.lep_error # <<>>))
         => /\ pc = "stopped"
            /\ \/ <<"error">> \o mem.lass_error \in shown
               \/ <<"error">> \o mem.lep_error \in shown

\* A render cycle has halted on the cached LASS error one step of time after
\* the failed fetch, with the URL reachable again.
C20_Witness ==
    /\ app = "nyc" /\ pc = "stopped"
    /\ cache.load_lass_data.last = "hit"
    /\ cache.load_lass_data.found = 1
    /\ ~cache.load_lass_data.value.ok
    /\ src.lass = Serves(UsualLass)
    /\ mem.lass_error = <<"Error loading LASS data: ", "URLError">>
    /\ <<"error">> \o mem.lass_error \in shown

\* The calls of st.date_input made with a range, by label.
RangedInputs(label) ==
    IF app = "sosi"
    THEN {mem.date_inputs[i] : i \in {j \in 1..Len(mem.date_inputs) :
                                        /\ mem.date_inputs[j].label = label
                                        /\ mem.date_inputs[j].given}}
    ELSE {}

\* C21: in the trends tab, whenever the Request Date column holds at least
\* one valid date, the default start date (the latest request date minus
\* 365 days) lies within the range from the earliest to the latest request
\* date that is passed to the date input, and it is not after the default
\* end date.
C21_DefaultStartInRange ==
    \A c \in RangedInputs("Start Date") :
        /\ c.min_value <= c.value /\ c.value <= c.max_value
        /\ \A e \in RangedInputs("End Date") : c.value <= e.value

====
